---------------------------- MODULE Spec2Model ----------------------------
(***************************************************************************)
(* A model of lib/vdsm/virt/backup.py: the backup and checkpoint           *)
(* operations of one VM (start_backup, stop_backup, backup_info,           *)
(* delete_checkpoints, redefine_checkpoints, dump_checkpoint) against      *)
(* the hypervisor domain (libvirt), the guest agent (freeze and thaw) and  *)
(* the storage server (transient disks).                                   *)
(*                                                                         *)
(* Every operation is a sequence of steps, one per call of a collaborator; *)
(* pc is the position of the running operation and calls is the log of     *)
(* the collaborator calls it made so far.  The outcome of each             *)
(* collaborator call is chosen by the environment.                         *)
(***************************************************************************)
EXTENDS Integers, Sequences, FiniteSets

VARIABLES
    chain,      \* the domain's checkpoints, topological (base to leaf) order
    backup,     \* backup id of the domain's active backup job, or None
    backup_xml, \* the description the domain gives of its backup job
    transient,  \* transient disks the storage server holds for vm.id
    pc,         \* position of the running operation, "idle" when none runs
    op,         \* the running operation
    cfg,        \* the request of the running operation
    drives,     \* start_backup: the BackupDrive of every disk, in disk order
    idx,        \* position of the running loop
    done_ids,   \* delete_checkpoints: deleted_checkpoint_ids
    leaf0,      \* start_backup: the leaf the hypervisor reported at entry
    chain0,     \* chain as it was when the operation was entered
    backup0,    \* backup as it was when the operation was entered
    transient0, \* transient as it was when the operation was entered
    listed,     \* _remove_scratch_disks: the listing it last got
    calls,      \* collaborator calls of the running operation, in order
    exc,        \* the exception propagating out of the operation, or NoExc
    excAt,      \* the step that raised exc
    first,      \* the step that raised the first exception of the operation
    ret,        \* the value the operation returns
    nops,       \* operations entered so far
    last        \* the latest result a caller got from a start_backup, or
                \* from a delete_checkpoints that reported no error

vars == <<chain, backup, backup_xml, transient, pc, op, cfg, drives, idx,
          done_ids, leaf0, chain0, backup0, transient0, listed, calls, exc,
          excAt, first, ret, nops, last>>

---------------------------------------------------------------------------
(* Bounds of the model. *)

MaxCheckpoints == 2     \* checkpoint ids are 1..MaxCheckpoints
MaxBackups == 2         \* backup ids are 1..MaxBackups
MaxDisks == 2           \* disks of one backup request
MaxIds == 3             \* delete_checkpoints is asked for ids of 1..MaxIds
MaxOps == 2             \* operations of one behaviour
MaxFailed == 1          \* failing removals of one _remove_scratch_disks
MaxDefs == 2            \* checkpoint definitions of one redefine_checkpoints
MaxOthers == 1          \* steps of other threads during one start_backup

---------------------------------------------------------------------------
(* Values. *)

None == 0

MODE_FULL == "full"
MODE_INCREMENTAL == "incremental"

CheckpointIds == 1..MaxCheckpoints
BackupIds == 1..MaxBackups

\* Names of the VM's drives; disk k of a request resolves to drive k.
DriveNames == <<"vda", "sdb", "sdc", "sdd">>

\* libvirt error codes the module tells apart; INTERNAL_ERROR stands for
\* every other code.
VIR_OK == "VIR_ERR_OK"
VIR_ERR_NO_DOMAIN_CHECKPOINT == "VIR_ERR_NO_DOMAIN_CHECKPOINT"
VIR_ERR_NO_DOMAIN_BACKUP == "VIR_ERR_NO_DOMAIN_BACKUP"
VIR_ERR_OPERATION_INVALID == "VIR_ERR_OPERATION_INVALID"
VIR_ERR_CHECKPOINT_INCONSISTENT == "VIR_ERR_CHECKPOINT_INCONSISTENT"
VIR_ERR_INTERNAL_ERROR == "VIR_ERR_INTERNAL_ERROR"
\* virdomain.NotConnectedError is no libvirtError
NOT_CONNECTED == "NotConnectedError"

\* Exceptions of vdsm.common.exception.
NoExc == "none"
BackupError == "BackupError"
CheckpointError == "CheckpointError"
InconsistentCheckpointError == "InconsistentCheckpointError"
NoSuchBackupError == "NoSuchBackupError"
NoSuchCheckpointError == "NoSuchCheckpointError"
\* Exceptions that are none of vdsm.common.exception.
LookupError == "LookupError"
libvirtError == "libvirtError"

NoArg == <<None, "">>

\* A collaborator call: what was called, on what, and what it answered (a
\* libvirt error code, or "ok" or "error" for a response of the guest agent
\* or of the storage server).
Call(name, arg, res) == [call |-> name, arg |-> arg, res |-> res]

NoCfg == [backup_id |-> None, from_checkpoint_id |-> None,
          to_checkpoint_id |-> None, parent_checkpoint_id |-> None,
          require_consistency |-> FALSE, disks |-> <<>>, ids |-> <<>>,
          checkpoints |-> <<>>]

NoRet == [kind |-> "none", ids |-> <<>>, code |-> VIR_OK, checkpoint |-> FALSE,
          disks |-> {}]

\* The domain runs no backup job: it has none to describe.
NoBackupXml == [socket |-> <<>>, disks |-> <<>>]

NoLast == [op |-> "none", backup_id |-> None, ids |-> <<>>, ret |-> NoRet]

\* Image ids of the VM's drives: disk k of a request names image k, and
\* the drive of image k is drive k.
ImageIds == <<"img-vda", "img-sdb", "img-sdc", "img-sdd">>

\* drive.imageID of the drive found by its name.
ImageOf(name) == ImageIds[CHOOSE k \in 1..Len(DriveNames) : DriveNames[k] = name]

\* os.path.join(P_BACKUP, backup_id)
socket_path(backup_id) == <<"/run/vdsm/backup", backup_id>>

\* nbdutils.UnixAddress(path).url(name): the export {address}/{drive_name}.
Url(address, name) == address \o <<name>>

\* Sequences over S of length at most n, without repetition.
SeqsNoRep(S, n) ==
    {s \in UNION {[1..k -> S] : k \in 0..n} :
        \A i, j \in 1..Len(s) : i # j => s[i] # s[j]}

Range(s) == {s[i] : i \in 1..Len(s)}

Count(what, log) == Cardinality({i \in 1..Len(log) : log[i].call = what})
Pos(what, log) == {i \in 1..Len(log) : log[i].call = what}

\* The order in which the storage server lists a set of transient disks.
RECURSIVE SetToSeq(_)
SetToSeq(S) ==
    IF S = {} THEN <<>>
    ELSE LET x == CHOOSE y \in S : TRUE
         IN <<x>> \o SetToSeq(S \ {x})

Res(call_name, log) == log[CHOOSE i \in Pos(call_name, log) : TRUE].res

---------------------------------------------------------------------------
(* Requests. *)

\* The disks of the requests of start_backup are all included in the
\* checkpoint.
DiskConfigs ==
    [scratch_disk : BOOLEAN, backup_mode : {MODE_FULL, MODE_INCREMENTAL},
     checkpoint : {TRUE}]

OptCheckpointIds == {None} \cup CheckpointIds

\* One disk, full or incremental, without a scratch disk of the engine.
OneDisk == {<<d>> : d \in {x \in DiskConfigs : ~x.scratch_disk}}

\* Up to MaxDisks disks, with or without scratch disks of the engine.
DiskLists == UNION {[1..n -> DiskConfigs] : n \in 0..MaxDisks}

\* The requests of start_backup: those that vary in their checkpoint ids
\* back up one disk, those that vary in their disks name no checkpoint.
BackupConfigs ==
    [backup_id : BackupIds,
     from_checkpoint_id : {None, 1},
     to_checkpoint_id : OptCheckpointIds,
     parent_checkpoint_id : OptCheckpointIds,
     require_consistency : BOOLEAN,
     disks : OneDisk,
     ids : {<<>>},
     checkpoints : {<<>>}]
    \cup
    [backup_id : BackupIds,
     from_checkpoint_id : {None},
     to_checkpoint_id : {None},
     parent_checkpoint_id : {None},
     require_consistency : BOOLEAN,
     disks : DiskLists,
     ids : {<<>>},
     checkpoints : {<<>>}]

\* Variant: the config is not validated.
BackupConfigInitAcceptsAll(c) == NoExc

\* BackupConfig.__init__: the exception it raises, NoExc when it returns.
BackupConfigInit(c) ==
    IF c.from_checkpoint_id # None /\ c.parent_checkpoint_id = None
    THEN BackupError
    ELSE IF \E i \in 1..Len(c.disks) :
                /\ c.from_checkpoint_id = None
                /\ c.disks[i].backup_mode = MODE_INCREMENTAL
         THEN BackupError
         ELSE NoExc

---------------------------------------------------------------------------
(* The state. *)

Init ==
    /\ chain \in {[i \in 1..n |-> i] : n \in 0..MaxCheckpoints}
    /\ backup = None
    /\ backup_xml = NoBackupXml
    /\ transient = {}
    /\ pc = "idle"
    /\ op = "none"
    /\ cfg = NoCfg
    /\ drives = <<>>
    /\ idx = 0
    /\ done_ids = <<>>
    /\ leaf0 = None
    /\ chain0 = <<>>
    /\ backup0 = None
    /\ transient0 = {}
    /\ listed = <<>>
    /\ calls = <<>>
    /\ exc = NoExc
    /\ excAt = ""
    /\ first = ""
    /\ ret = NoRet
    /\ nops = 0
    /\ last = NoLast

\* Variant: the first checkpoint of the listing is taken.
LeafOfBase(checkpoints) ==
    IF checkpoints # <<>> THEN checkpoints[1] ELSE None

\* The name of the last checkpoint of a topological listing, None when the
\* listing is empty (_get_leaf_checkpoint_name).
LeafOf(checkpoints) ==
    IF checkpoints # <<>> THEN checkpoints[Len(checkpoints)] ELSE None

\* An operation is entered: a caller invokes it while no other one runs on
\* the VM.
Enter(name, request) ==
    /\ pc = "idle"
    /\ nops < MaxOps
    /\ nops' = nops + 1
    /\ op' = name
    /\ cfg' = request
    /\ leaf0' = LeafOf(chain)
    /\ chain0' = chain
    /\ backup0' = backup
    /\ transient0' = transient
    /\ calls' = <<>>
    /\ listed' = <<>>
    /\ UNCHANGED last

\* An exception is raised at step `at`; control goes to `next`.
Raise(e, at, next) ==
    /\ exc' = e
    /\ excAt' = at
    /\ first' = (IF first = "" THEN at ELSE first)
    /\ pc' = next

Goto(next) ==
    /\ pc' = next
    /\ UNCHANGED <<exc, excAt, first>>

Log(entries) == calls' = calls \o entries

request == <<op, cfg, leaf0, chain0, backup0, transient0, nops, last>>

---------------------------------------------------------------------------
(* _remove_scratch_disks, shared by start_backup and stop_backup. *)

\* Variant: the loop misses the last listed disk.
DisksToRemoveButLast(backup_id, listing) ==
    SubSeq(listing, 1, Len(listing) - 1)

\* Variant: only the disks named after backup_id are removed.
DisksToRemoveOwn(backup_id, listing) ==
    SelectSeq(listing, LAMBDA d : d[1] = backup_id)

\* The transient disks _remove_scratch_disks asks the storage server to
\* remove, given the listing of the disks of vm.id: all of them, whatever
\* backup id they were created for.
DisksToRemove(backup_id, listing) == listing

\* Variant: a failure to list the disks is logged as a failure to remove
\* one is.
RemoveScratchDisksLogsOnly(list_ok, failed, raised, returned) ==
    /\ Log(<<Call("list_transient_disks", NoArg,
                  IF list_ok THEN "ok" ELSE "error")>>
           \o (IF list_ok
               THEN [k \in 1..Len(SetToSeq(transient)) |->
                       Call("remove_transient_disk", SetToSeq(transient)[k],
                            IF SetToSeq(transient)[k] \in failed
                            THEN "error" ELSE "ok")]
               ELSE <<>>))
    /\ listed' = (IF list_ok THEN SetToSeq(transient) ELSE listed)
    /\ transient' = (IF list_ok THEN failed ELSE transient)
    /\ Goto(returned)

\* list_ok: the outcome of list_transient_disks; failed: the disks whose
\* remove_transient_disk call reports an error.  Control goes to `raised`
\* when the listing fails and to `returned` otherwise.
RemoveScratchDisks(list_ok, failed, raised, returned) ==
    IF ~list_ok
    THEN /\ Log(<<Call("list_transient_disks", NoArg, "error")>>)
         /\ Raise(BackupError, "_remove_scratch_disks", raised)
         /\ UNCHANGED <<transient, listed>>
    ELSE LET listing == SetToSeq(transient)
             victims == DisksToRemove(cfg.backup_id, listing)
         IN /\ Log(<<Call("list_transient_disks", NoArg, "ok")>>
                   \o [k \in 1..Len(victims) |->
                         Call("remove_transient_disk", victims[k],
                              IF victims[k] \in failed THEN "error"
                              ELSE "ok")])
            /\ listed' = listing
            /\ transient' = transient \ (Range(victims) \ failed)
            /\ Goto(returned)

\* The sets of disks whose removal may fail.
RemovalFailures(disks) ==
    {f \in SUBSET disks : Cardinality(f) <= MaxFailed}

---------------------------------------------------------------------------
(* start_backup *)

\* start_backup: BackupConfig(config) and the check for an empty disk list.
StartBackup(c) ==
    /\ Enter("start_backup", c)
    /\ drives' = <<>>
    /\ idx' = 0
    /\ IF BackupConfigInit(c) # NoExc
       THEN Raise(BackupConfigInit(c), "BackupConfig", "done")
       ELSE IF c.disks = <<>>
            THEN Raise(BackupError, "start_backup", "done")
            ELSE Goto("validate_parent")
    /\ UNCHANGED <<chain, backup, backup_xml, transient, done_ids, ret>>

\* Variant: the check is keyed on from_checkpoint_id.
ParentIsValidatedIfFrom(c) == c.from_checkpoint_id # None

\* Variant: the parent is never checked.
ParentIsNeverValidated(c) == FALSE

\* _validate_parent_id: whether the parent is checked against the leaf.
ParentIsValidated(c) == c.to_checkpoint_id # None

\* dom.listAllCheckpoints(flags=flags) and the checkpoints it returned.
ListedCall(res, names) ==
    [call |-> "listAllCheckpoints", arg |-> NoArg, res |-> res,
     names |-> names]

\* _validate_parent_id
ValidateParentId ==
    /\ pc = "validate_parent"
    /\ IF ~ParentIsValidated(cfg)
       THEN /\ Goto("get_drives")
            /\ UNCHANGED calls
       ELSE \E r \in {VIR_OK, VIR_ERR_INTERNAL_ERROR} :
              /\ Log(<<ListedCall(r, IF r = VIR_OK THEN chain ELSE <<>>)>>)
              /\ IF r # VIR_OK
                 THEN Raise(CheckpointError, "_get_leaf_checkpoint_name",
                            "done")
                 ELSE IF cfg.parent_checkpoint_id # LeafOf(chain)
                      THEN Raise(CheckpointError, "_validate_parent_id",
                                 "done")
                      ELSE Goto("get_drives")
    /\ UNCHANGED <<chain, backup, backup_xml, transient, drives, idx, done_ids, listed,
                   ret, request>>

\* BackupDrive(drive.name, drive.path, disk.backup_mode, disk.scratch_disk)
\* of disk k; scratch_disk is "none" for None, "engine" for the disk the
\* engine provisioned and "file" for a transient disk.
BackupDrive(c, k) ==
    [name |-> DriveNames[k],
     backup_mode |-> c.disks[k].backup_mode,
     scratch_disk |-> IF c.disks[k].scratch_disk THEN "engine" ELSE "none"]

\* _get_disks_drives: found is FALSE when findDriveByUUIDs raises
\* LookupError for one of the disks.
GetDisksDrives ==
    /\ pc = "get_drives"
    /\ \E found \in BOOLEAN :
         IF found
         THEN /\ drives' = [k \in 1..Len(cfg.disks) |-> BackupDrive(cfg, k)]
              /\ idx' = 1
              /\ Goto("create_scratch")
         ELSE /\ Raise(BackupError, "_get_disks_drives", "done")
              /\ UNCHANGED <<drives, idx>>
    /\ UNCHANGED <<chain, backup, backup_xml, transient, done_ids, listed, calls, ret,
                   request>>

\* "{}.{}".format(backup_id, drive.name)
DiskName(backup_id, drive) == <<backup_id, drive.name>>

\* dom.blockInfo(drive.path): capacity, allocation and physical size of
\* the VM's drives.
BlockInfo(drive) ==
    LET k == CHOOSE i \in 1..Len(DriveNames) : DriveNames[i] = drive.name
    IN <<10 * k, k, 10 * k + 1>>

\* _get_drive_capacity: capacity, _, _ = dom.blockInfo(drive.path)
get_drive_capacity(drive) == BlockInfo(drive)[1]

\* A call that carries a size: the answer of blockInfo, the size asked of
\* create_transient_disk.
SizedCall(name, arg, res, size) ==
    [call |-> name, arg |-> arg, res |-> res, size |-> size]

\* Variant: a scratch disk is created for every drive.
NeedsScratchDiskAlways(drive) == TRUE

\* _create_scratch_disks: whether a scratch disk is created for the drive.
NeedsScratchDisk(drive) == drive.scratch_disk = "none"

\* Variant: the backup begins without freezing the guest.
AfterScratchDisksNoFreeze == "begin"

\* start_backup: the step that follows _create_scratch_disks.
AfterScratchDisks == "freeze"

\* One iteration of the loop of _create_scratch_disks, with
\* _create_transient_disk and _get_drive_capacity.
CreateScratchDisk ==
    /\ pc = "create_scratch"
    /\ LET drive == drives[idx]
           name == DiskName(cfg.backup_id, drive)
           next == IF idx = Len(drives) THEN AfterScratchDisks
                   ELSE "create_scratch"
       IN IF ~NeedsScratchDisk(drive)
          THEN /\ idx' = idx + 1
               /\ Goto(next)
               /\ UNCHANGED <<drives, transient, calls>>
          ELSE \E r \in {"ok", "blockInfo", "create_transient_disk"} :
                 CASE r = "blockInfo" ->
                        /\ Log(<<Call("blockInfo", name,
                                      VIR_ERR_INTERNAL_ERROR)>>)
                        /\ Raise(BackupError, "_get_drive_capacity",
                                 "rollback_create")
                        /\ UNCHANGED <<drives, idx, transient>>
                   [] r = "create_transient_disk" ->
                        /\ Log(<<SizedCall("blockInfo", name, VIR_OK,
                                           BlockInfo(drive)),
                                 SizedCall("create_transient_disk", name,
                                           "error",
                                           get_drive_capacity(drive))>>)
                        /\ Raise(BackupError, "_create_transient_disk",
                                 "rollback_create")
                        /\ UNCHANGED <<drives, idx, transient>>
                   [] OTHER ->
                        /\ Log(<<SizedCall("blockInfo", name, VIR_OK,
                                           BlockInfo(drive)),
                                 SizedCall("create_transient_disk", name,
                                           "ok",
                                           get_drive_capacity(drive))>>)
                        /\ transient' = transient \cup {name}
                        /\ drives' = [drives EXCEPT
                                        ![idx].scratch_disk = "file"]
                        /\ idx' = idx + 1
                        /\ Goto(next)
    /\ UNCHANGED <<chain, backup, backup_xml, done_ids, listed, ret, request>>

\* Variant: _create_scratch_disks is called inside the try statement.
AfterRollbackCreateInTry == "rollback_try"

\* Variant: _create_scratch_disks is called inside a try with the finally
\* clause alone.
AfterRollbackCreateThaws == "thaw"

\* start_backup: where control goes when _create_scratch_disks raises: out
\* of start_backup, the call being made before the try statement.
AfterRollbackCreate == "done"

\* _create_scratch_disks: except Exception: _remove_scratch_disks; raise
RollbackCreate ==
    /\ pc = "rollback_create"
    /\ \E list_ok \in BOOLEAN, failed \in RemovalFailures(transient) :
         /\ list_ok \/ failed = {}
         /\ RemoveScratchDisks(list_ok, failed, AfterRollbackCreate,
                               AfterRollbackCreate)
    /\ UNCHANGED <<chain, backup, backup_xml, drives, idx, done_ids, ret, request>>

\* Variant: require_consistency is not looked at.
FreezeAlwaysFails(is_error, c) == is_error

\* start_backup: vm.freeze() and the check of its response.
FreezeFails(is_error, c) == is_error /\ c.require_consistency

Freeze ==
    /\ pc = "freeze"
    /\ \E is_error \in BOOLEAN :
         /\ Log(<<Call("freeze", NoArg,
                       IF is_error THEN "error" ELSE "ok")>>)
         /\ IF FreezeFails(is_error, cfg)
            THEN Raise(BackupError, "freeze", "rollback_try")
            ELSE Goto("begin")
    /\ UNCHANGED <<chain, backup, backup_xml, transient, drives, idx, done_ids, listed,
                   ret, request>>

\* Variant: every libvirtError of backupBegin is a BackupError.
BeginBackupErrorGeneric(code) == BackupError

\* _begin_backup: the exception raised for a libvirtError of backupBegin.
BeginBackupError(code) ==
    IF code = VIR_ERR_CHECKPOINT_INCONSISTENT
    THEN InconsistentCheckpointError
    ELSE BackupError

\* start_backup: where control goes when the try block ends, by an
\* exception (after the except clause) or not: the finally clause.
Finally == "thaw"

\* create_checkpoint_xml returns None.
NoCheckpointXml ==
    [name |-> None, parent |-> None, has_disks |-> FALSE, disks |-> <<>>]

\* The positions of the disks of a config that are included in the
\* checkpoint, in the order of the config.
RECURSIVE CheckpointDisks(_, _)
CheckpointDisks(c, n) ==
    IF n = 0 THEN <<>>
    ELSE CheckpointDisks(c, n - 1)
           \o (IF c.disks[n].checkpoint THEN <<n>> ELSE <<>>)

\* Variant: every disk of the config gets an entry.
create_checkpoint_xml_all_disks(c, drvs) ==
    IF c.to_checkpoint_id = None
    THEN NoCheckpointXml
    ELSE [name |-> c.to_checkpoint_id,
          parent |-> c.parent_checkpoint_id,
          has_disks |-> c.disks # <<>>,
          disks |-> [k \in 1..Len(c.disks) |->
                       [name |-> drvs[k].name,
                        bitmap |-> c.to_checkpoint_id]]]

\* create_checkpoint_xml: None without to_checkpoint_id; else the name, the
\* parent (None: no parent element) and, when the config has disks, the
\* disks element with a bitmap entry for each disk included in the
\* checkpoint.
create_checkpoint_xml(c, drvs) ==
    IF c.to_checkpoint_id = None
    THEN NoCheckpointXml
    ELSE LET at == CheckpointDisks(c, Len(c.disks))
         IN [name |-> c.to_checkpoint_id,
             parent |-> c.parent_checkpoint_id,
             has_disks |-> c.disks # <<>>,
             disks |-> [i \in 1..Len(at) |->
                          [name |-> drvs[at[i]].name,
                           bitmap |-> c.to_checkpoint_id]]]

\* create_backup_xml: the server socket and the disks of the backup XML,
\* one for each drive, all of them backed up.
create_backup_xml(address, drvs) ==
    [socket |-> address, disks |-> [k \in 1..Len(drvs) |-> drvs[k].name]]

\* create_backup_xml, create_checkpoint_xml and _begin_backup.  The domain
\* starts a backup job only when it runs none, and creates the checkpoint
\* of the checkpoint XML as the new leaf.
BeginBackup ==
    /\ pc = "begin"
    /\ \E r \in {VIR_OK, VIR_ERR_CHECKPOINT_INCONSISTENT,
                 VIR_ERR_INTERNAL_ERROR} :
         /\ r = VIR_OK =>
              /\ backup = None
              /\ cfg.to_checkpoint_id \notin Range(chain)
         /\ Log(<<Call("backupBegin", create_checkpoint_xml(cfg, drives),
                       r)>>)
         /\ IF r = VIR_OK
            THEN /\ backup' = cfg.backup_id
                 /\ backup_xml' = create_backup_xml(
                                      socket_path(cfg.backup_id), drives)
                 /\ chain' = IF cfg.to_checkpoint_id # None
                             THEN Append(chain, cfg.to_checkpoint_id)
                             ELSE chain
                 /\ Goto(Finally)
            ELSE /\ Raise(BeginBackupError(r), "_begin_backup",
                          "rollback_try")
                 /\ UNCHANGED <<chain, backup, backup_xml>>
    /\ UNCHANGED <<transient, drives, idx, done_ids, listed, ret, request>>

\* Variant: thaw follows the try statement instead of being its finally
\* clause.
ExceptLeavesWithoutFinally == "done"

\* start_backup: where control goes when the except clause ends, by its
\* raise or by an exception of _remove_scratch_disks: the finally clause.
AfterExcept == Finally

\* start_backup: except: _remove_scratch_disks; raise
RollbackTry ==
    /\ pc = "rollback_try"
    /\ \E list_ok \in BOOLEAN, failed \in RemovalFailures(transient) :
         /\ list_ok \/ failed = {}
         /\ RemoveScratchDisks(list_ok, failed, AfterExcept, AfterExcept)
    /\ UNCHANGED <<chain, backup, backup_xml, drives, idx, done_ids, ret, request>>

\* Variant: the scratch disks are removed when the backup has begun.
AfterThawCleans(e) == IF e # NoExc THEN "done" ELSE "stop_remove"

\* Variant: the scratch disks are removed again after the finally clause.
AfterThawRollsBack(e) ==
    IF e # NoExc THEN "rollback_create" ELSE "add_checkpoint_xml"

\* start_backup: where control goes after the finally clause: out of
\* start_backup with the exception e, on to the result without one.
AfterThaw(e) == IF e # NoExc THEN "done" ELSE "add_checkpoint_xml"

\* start_backup: finally: vm.thaw()
Thaw ==
    /\ pc = "thaw"
    /\ Log(<<Call("thaw", NoArg, "ok")>>)
    /\ Goto(AfterThaw(exc))
    /\ UNCHANGED <<chain, backup, backup_xml, transient, drives, idx, done_ids, listed,
                   ret, request>>

\* start_backup: disks_urls, an export of nbd_addr for each drive, by the
\* image id of the disk.
StartDisksUrls(backup_id, drvs) ==
    {<<ImageIds[k], Url(socket_path(backup_id), drvs[k].name)>> :
        k \in 1..Len(drvs)}

\* The 'disks' of the result that _add_checkpoint_xml completes.
ResultDisks ==
    IF op = "start_backup" THEN StartDisksUrls(cfg.backup_id, drives)
    ELSE ret.disks

\* Variant: only 'no such checkpoint' is handled.
OnlyNoCheckpointTolerated(code) == code = VIR_ERR_NO_DOMAIN_CHECKPOINT

\* _add_checkpoint_xml: whether a libvirtError of the lookup or of the dump
\* of the checkpoint is logged and dropped.
CheckpointFetchTolerated(code) == TRUE

\* start_backup and backup_info: the result, with _add_checkpoint_xml.
\* looked: the outcome of checkpointLookupByName; dumped: the outcome of
\* checkpoint.getXMLDesc().
AddCheckpointXml ==
    /\ pc = "add_checkpoint_xml"
    /\ IF cfg.to_checkpoint_id = None
       THEN /\ ret' = [kind |-> "disks", ids |-> <<>>, code |-> VIR_OK,
                       checkpoint |-> FALSE, disks |-> ResultDisks]
            /\ Goto("done")
            /\ UNCHANGED calls
       ELSE \E looked \in {VIR_OK, VIR_ERR_NO_DOMAIN_CHECKPOINT,
                           VIR_ERR_INTERNAL_ERROR},
               dumped \in {VIR_OK, VIR_ERR_INTERNAL_ERROR} :
              /\ looked = VIR_OK => cfg.to_checkpoint_id \in Range(chain)
              /\ looked = VIR_ERR_NO_DOMAIN_CHECKPOINT =>
                   cfg.to_checkpoint_id \notin Range(chain)
              /\ looked # VIR_OK => dumped = VIR_OK
              /\ LET arg == <<cfg.to_checkpoint_id, "">>
                     code == IF looked # VIR_OK THEN looked ELSE dumped
                 IN /\ Log(IF looked = VIR_OK
                           THEN <<Call("checkpointLookupByName", arg, looked),
                                  Call("checkpoint.getXMLDesc", arg, dumped)>>
                           ELSE <<Call("checkpointLookupByName", arg,
                                       looked)>>)
                    /\ IF code # VIR_OK /\ ~CheckpointFetchTolerated(code)
                       THEN /\ Raise(libvirtError, "_add_checkpoint_xml",
                                     "done")
                            /\ UNCHANGED ret
                       ELSE /\ ret' = [kind |-> "disks", ids |-> <<>>,
                                       code |-> VIR_OK,
                                       checkpoint |-> (code = VIR_OK),
                                       disks |-> ResultDisks]
                            /\ Goto("done")
    /\ UNCHANGED <<chain, backup, backup_xml, transient, drives, idx,
                   done_ids, listed, request>>

---------------------------------------------------------------------------
(* stop_backup *)

StopRequest(backup_id) == [NoCfg EXCEPT !.backup_id = backup_id]

StopBackup(backup_id) ==
    /\ Enter("stop_backup", StopRequest(backup_id))
    /\ Goto("backup_exists")
    /\ UNCHANGED <<chain, backup, backup_xml, transient, drives, idx, done_ids, ret>>

\* Variant: 'no backup' is not told apart from the other libvirt errors.
GetBackupXmlGeneric(r) ==
    CASE r = VIR_OK -> NoExc
      [] r = NOT_CONNECTED -> NOT_CONNECTED
      [] OTHER -> BackupError

\* _get_backup_xml: the exception it raises for the outcome of
\* backupGetXMLDesc, NoExc when it returns the XML.
GetBackupXml(r) ==
    CASE r = VIR_OK -> NoExc
      [] r = VIR_ERR_NO_DOMAIN_BACKUP -> NoSuchBackupError
      [] r = NOT_CONNECTED -> NOT_CONNECTED
      [] OTHER -> BackupError

\* Variant: NotConnectedError is not caught.
BackupExistsNoSuchBackupOnly(backup_id, r) ==
    CASE GetBackupXml(r) = NoExc -> "true"
      [] GetBackupXml(r) = NoSuchBackupError -> "false"
      [] OTHER -> "raise"

\* _backup_exists: "true", "false", or "raise" when the exception of
\* _get_backup_xml is not one it catches.  backupGetXMLDesc describes the
\* job the domain runs, whatever backup_id is asked for.
BackupExists(backup_id, r) ==
    CASE GetBackupXml(r) = NoExc -> "true"
      [] GetBackupXml(r) \in {NoSuchBackupError, NOT_CONNECTED} -> "false"
      [] OTHER -> "raise"

\* stop_backup: if _backup_exists(vm, dom, backup_id).  A domain that runs
\* no backup job, and a VM that is not connected, have no job to describe.
CheckBackupExists ==
    /\ pc = "backup_exists"
    /\ \E r \in {VIR_OK, VIR_ERR_NO_DOMAIN_BACKUP, VIR_ERR_INTERNAL_ERROR,
                 NOT_CONNECTED} :
         /\ r = VIR_OK => backup # None
         /\ r \in {VIR_ERR_NO_DOMAIN_BACKUP, NOT_CONNECTED} => backup = None
         /\ Log(<<Call("backupGetXMLDesc", NoArg, r)>>)
         /\ CASE BackupExists(cfg.backup_id, r) = "true" -> Goto("abort")
              [] BackupExists(cfg.backup_id, r) = "false" ->
                   Goto("stop_remove")
              [] OTHER -> Raise(GetBackupXml(r), "_get_backup_xml", "done")
    /\ UNCHANGED <<chain, backup, backup_xml, transient, drives, idx, done_ids, listed,
                   ret, request>>

\* Variant: every libvirtError of abortJob is raised as BackupError.
AbortErrorNeverTolerated(code) == FALSE

\* stop_backup: whether a libvirtError of abortJob is swallowed.
AbortErrorTolerated(code) == code = VIR_ERR_OPERATION_INVALID

\* Variant: the removal is a finally clause of the abort.
AfterAbortErrorRemove == "stop_remove"

\* stop_backup: where control goes when abortJob raised an error that is
\* not tolerated.
AfterAbortError == "done"

\* stop_backup: dom.abortJob().  VIR_ERR_OPERATION_INVALID: the job ended
\* before the call.
AbortJob ==
    /\ pc = "abort"
    /\ \E r \in {VIR_OK, VIR_ERR_OPERATION_INVALID, VIR_ERR_INTERNAL_ERROR} :
         /\ Log(<<Call("abortJob", NoArg, r)>>)
         /\ backup' = IF r = VIR_ERR_INTERNAL_ERROR THEN backup ELSE None
         /\ backup_xml' = IF r = VIR_ERR_INTERNAL_ERROR THEN backup_xml
                          ELSE NoBackupXml
         /\ IF r = VIR_OK \/ AbortErrorTolerated(r)
            THEN Goto("stop_remove")
            ELSE Raise(BackupError, "abortJob", AfterAbortError)
    /\ UNCHANGED <<chain, transient, drives, idx, done_ids, listed, ret,
                   request>>

\* stop_backup: _remove_scratch_disks(vm, backup_id)
StopRemove ==
    /\ pc = "stop_remove"
    /\ \E list_ok \in BOOLEAN, failed \in RemovalFailures(transient) :
         /\ list_ok \/ failed = {}
         /\ RemoveScratchDisks(list_ok, failed, "done", "done")
    /\ ret' = IF exc' = NoExc /\ exc = NoExc
              THEN [NoRet EXCEPT !.kind = "None"]
              ELSE ret
    /\ UNCHANGED <<chain, backup, backup_xml, drives, idx, done_ids, request>>

---------------------------------------------------------------------------
(* backup_info *)

\* The request of backup_info; its checkpoint_id is kept where start_backup
\* keeps the id of the checkpoint it creates.
InfoRequest(backup_id, checkpoint_id) ==
    [NoCfg EXCEPT !.backup_id = backup_id, !.to_checkpoint_id = checkpoint_id]

BackupInfo(backup_id, checkpoint_id) ==
    /\ Enter("backup_info", InfoRequest(backup_id, checkpoint_id))
    /\ Goto("info_xml")
    /\ UNCHANGED <<chain, backup, backup_xml, transient, drives, idx,
                   done_ids, ret>>

\* Variant: a disk of the description is left out.
BackedUpDisksButLast(xml) == {xml.disks[k] : k \in 1..Len(xml.disks) - 1}

\* _parse_backup_info: the names of ./disks/disk[@backup='yes'].
BackedUpDisks(xml) == Range(xml.disks)

\* _parse_backup_info: disks_urls, an export of the server socket of the
\* description for each of its disks, by the image id of the drive.
parse_backup_info(xml) ==
    {<<ImageOf(name), Url(xml.socket, name)>> : name \in BackedUpDisks(xml)}

\* backup_info: _get_backup_xml and _parse_backup_info.  parsed: "ok",
\* "no_server" when the description has no server socket (or a disk of it
\* no name), "no_drive" when find_device_by_name_or_path raises LookupError.
GetBackupInfo ==
    /\ pc = "info_xml"
    /\ \E r \in {VIR_OK, VIR_ERR_NO_DOMAIN_BACKUP, VIR_ERR_INTERNAL_ERROR,
                 NOT_CONNECTED},
          parsed \in {"ok", "no_server", "no_drive"} :
         /\ r = VIR_OK => backup # None
         /\ r \in {VIR_ERR_NO_DOMAIN_BACKUP, NOT_CONNECTED} => backup = None
         /\ r # VIR_OK => parsed = "ok"
         /\ Log(<<Call("backupGetXMLDesc", NoArg, r)>>)
         /\ CASE GetBackupXml(r) # NoExc ->
                   /\ Raise(GetBackupXml(r), "_get_backup_xml", "done")
                   /\ UNCHANGED ret
              [] GetBackupXml(r) = NoExc /\ parsed = "no_server" ->
                   /\ Raise(BackupError, "_raise_parse_error", "done")
                   /\ UNCHANGED ret
              [] GetBackupXml(r) = NoExc /\ parsed = "no_drive" ->
                   /\ Raise(LookupError, "_parse_backup_info", "done")
                   /\ UNCHANGED ret
              [] OTHER ->
                   /\ ret' = [NoRet EXCEPT
                                !.disks = parse_backup_info(backup_xml)]
                   /\ Goto("add_checkpoint_xml")
    /\ UNCHANGED <<chain, backup, backup_xml, transient, drives, idx,
                   done_ids, listed, request>>

---------------------------------------------------------------------------
(* delete_checkpoints *)

DeleteRequest(ids) == [NoCfg EXCEPT !.ids = ids]

\* The result of delete_checkpoints: with code = VIR_OK it holds no 'error'.
DeleteResult(ids, code) ==
    [kind |-> "checkpoint_ids", ids |-> ids, code |-> code,
     checkpoint |-> FALSE, disks |-> {}]

DeleteCheckpoints(ids) ==
    /\ Enter("delete_checkpoints", DeleteRequest(ids))
    /\ done_ids' = <<>>
    /\ idx' = 1
    /\ IF ids = <<>>
       THEN /\ ret' = DeleteResult(<<>>, VIR_OK)
            /\ Goto("done")
       ELSE /\ Goto("delete")
            /\ UNCHANGED ret
    /\ UNCHANGED <<chain, backup, backup_xml, transient, drives>>

\* Variant: every libvirtError is handled as 'no such checkpoint'.
DeleteNeverStops(code) == FALSE

\* Variant: every libvirtError ends the loop, 'no such checkpoint' too.
DeleteAlwaysStops(code) == TRUE

\* delete_checkpoints: whether a libvirtError ends the loop.
DeleteStops(code) == code # VIR_ERR_NO_DOMAIN_CHECKPOINT

\* One iteration of the loop of delete_checkpoints.  looked: the outcome of
\* checkpointLookupByName; deleted: the outcome of checkpoint.delete().
DeleteCheckpoint ==
    /\ pc = "delete"
    /\ LET id == cfg.ids[idx]
           arg == <<id, "">>
       IN \E looked \in {VIR_OK, VIR_ERR_NO_DOMAIN_CHECKPOINT,
                         VIR_ERR_INTERNAL_ERROR},
             deleted \in {VIR_OK, VIR_ERR_INTERNAL_ERROR} :
            /\ looked = VIR_OK => id \in Range(chain)
            /\ looked = VIR_ERR_NO_DOMAIN_CHECKPOINT => id \notin Range(chain)
            /\ looked # VIR_OK => deleted = VIR_OK
            /\ LET code == IF looked # VIR_OK THEN looked ELSE deleted
               IN /\ Log(IF looked = VIR_OK
                         THEN <<Call("checkpointLookupByName", arg, looked),
                                Call("checkpoint.delete", arg, deleted)>>
                         ELSE <<Call("checkpointLookupByName", arg,
                                     looked)>>)
                  /\ chain' = IF code = VIR_OK
                              THEN SelectSeq(chain, LAMBDA x : x # id)
                              ELSE chain
                  /\ IF code # VIR_OK /\ DeleteStops(code)
                     THEN /\ ret' = DeleteResult(done_ids, code)
                          /\ Goto("done")
                          /\ UNCHANGED <<done_ids, idx>>
                     ELSE /\ done_ids' = Append(done_ids, id)
                          /\ idx' = idx + 1
                          /\ IF idx = Len(cfg.ids)
                             THEN /\ ret' = DeleteResult(done_ids', VIR_OK)
                                  /\ Goto("done")
                             ELSE /\ Goto("delete")
                                  /\ UNCHANGED ret
    /\ UNCHANGED <<backup, backup_xml, transient, drives, listed, request>>

---------------------------------------------------------------------------
(* redefine_checkpoints *)

\* The checkpoint definitions a caller sends: an id, with or without the
\* checkpoint XML, and with a backup config ("valid" or "invalid") or
\* without one ("none").
CheckpointDefs ==
    [id : CheckpointIds, xml : BOOLEAN, config : {"none", "valid", "invalid"}]

\* The 'config' of a definition: a config of one disk for the checkpoint,
\* that names a from_checkpoint_id without its parent when invalid.
NestedConfig(d) ==
    [NoCfg EXCEPT !.backup_id = 1,
                  !.from_checkpoint_id =
                      IF d.config = "invalid" THEN 1 ELSE None,
                  !.to_checkpoint_id = d.id,
                  !.disks = <<[scratch_disk |-> FALSE,
                               backup_mode |-> MODE_FULL,
                               checkpoint |-> TRUE]>>]

\* CheckpointConfig.__init__: the exception it raises, NoExc when it
\* returns.
CheckpointConfigInit(d) ==
    IF d.config # "none" /\ BackupConfigInit(NestedConfig(d)) # NoExc
    THEN BackupConfigInit(NestedConfig(d))
    ELSE IF d.config = "none" /\ ~d.xml
         THEN CheckpointError
         ELSE NoExc

RedefineRequest(checkpoints) == [NoCfg EXCEPT !.checkpoints = checkpoints]

\* The result of redefine_checkpoints: with code = VIR_OK it holds no
\* 'error'.
RedefineResult(ids, code) ==
    [kind |-> "checkpoint_ids", ids |-> ids, code |-> code,
     checkpoint |-> FALSE, disks |-> {}]

RedefineCheckpoints(checkpoints) ==
    /\ Enter("redefine_checkpoints", RedefineRequest(checkpoints))
    /\ done_ids' = <<>>
    /\ idx' = 1
    /\ IF checkpoints = <<>>
       THEN /\ ret' = RedefineResult(<<>>, VIR_OK)
            /\ Goto("done")
       ELSE /\ Goto("redefine")
            /\ UNCHANGED ret
    /\ UNCHANGED <<chain, backup, backup_xml, transient, drives>>

\* One iteration of the loop of redefine_checkpoints.  found is FALSE when
\* findDriveByUUIDs raises LookupError in _get_disks_drives; r is the
\* outcome of checkpointCreateXML, which adds the checkpoint to the
\* domain's checkpoints unless it is one of them.
RedefineCheckpoint ==
    /\ pc = "redefine"
    /\ LET d == cfg.checkpoints[idx]
       IN IF CheckpointConfigInit(d) # NoExc
          THEN /\ Raise(CheckpointConfigInit(d), "CheckpointConfig", "done")
               /\ UNCHANGED <<chain, calls, done_ids, idx, ret>>
          ELSE \E found \in BOOLEAN,
                  r \in {VIR_OK, VIR_ERR_INTERNAL_ERROR} :
                 /\ d.config = "none" => found
                 /\ ~found => r = VIR_OK
                 /\ IF ~found
                    THEN /\ Raise(BackupError, "_get_disks_drives", "done")
                         /\ UNCHANGED <<chain, calls, done_ids, idx, ret>>
                    ELSE /\ Log(<<Call("checkpointCreateXML", <<d.id, "">>,
                                       r)>>)
                         /\ IF r # VIR_OK
                            THEN /\ ret' = RedefineResult(done_ids, r)
                                 /\ Goto("done")
                                 /\ UNCHANGED <<chain, done_ids, idx>>
                            ELSE /\ chain' = IF d.id \in Range(chain)
                                             THEN chain
                                             ELSE Append(chain, d.id)
                                 /\ done_ids' = Append(done_ids, d.id)
                                 /\ idx' = idx + 1
                                 /\ IF idx = Len(cfg.checkpoints)
                                    THEN /\ ret' = RedefineResult(done_ids',
                                                                 VIR_OK)
                                         /\ Goto("done")
                                    ELSE /\ Goto("redefine")
                                         /\ UNCHANGED ret
    /\ UNCHANGED <<backup, backup_xml, transient, drives, listed, request>>

---------------------------------------------------------------------------
(* dump_checkpoint *)

\* The request of dump_checkpoint; its checkpoint_id is kept where
\* start_backup keeps the id of the checkpoint it creates.
DumpRequest(checkpoint_id) == [NoCfg EXCEPT !.to_checkpoint_id = checkpoint_id]

DumpCheckpoint(checkpoint_id) ==
    /\ Enter("dump_checkpoint", DumpRequest(checkpoint_id))
    /\ Goto("dump")
    /\ UNCHANGED <<chain, backup, backup_xml, transient, drives, idx,
                   done_ids, ret>>

\* Variant: the error is raised again whatever its code.
DumpCheckpointErrorUnclassified(code) == libvirtError

\* dump_checkpoint: the exception that leaves it for a libvirtError: the
\* error itself unless its code is 'no such checkpoint'.
DumpCheckpointError(code) ==
    IF code = VIR_ERR_NO_DOMAIN_CHECKPOINT
    THEN NoSuchCheckpointError
    ELSE libvirtError

\* dump_checkpoint: checkpointLookupByName and checkpoint.getXMLDesc().
GetCheckpointXml ==
    /\ pc = "dump"
    /\ \E looked \in {VIR_OK, VIR_ERR_NO_DOMAIN_CHECKPOINT,
                      VIR_ERR_INTERNAL_ERROR},
          dumped \in {VIR_OK, VIR_ERR_INTERNAL_ERROR} :
         /\ looked = VIR_OK => cfg.to_checkpoint_id \in Range(chain)
         /\ looked = VIR_ERR_NO_DOMAIN_CHECKPOINT =>
              cfg.to_checkpoint_id \notin Range(chain)
         /\ looked # VIR_OK => dumped = VIR_OK
         /\ LET arg == <<cfg.to_checkpoint_id, "">>
                code == IF looked # VIR_OK THEN looked ELSE dumped
            IN /\ Log(IF looked = VIR_OK
                      THEN <<Call("checkpointLookupByName", arg, looked),
                             Call("checkpoint.getXMLDesc", arg, dumped)>>
                      ELSE <<Call("checkpointLookupByName", arg, looked)>>)
               /\ IF code # VIR_OK
                  THEN /\ Raise(DumpCheckpointError(code), "dump_checkpoint",
                                "done")
                       /\ UNCHANGED ret
                  ELSE /\ ret' = [NoRet EXCEPT !.kind = "checkpoint",
                                               !.checkpoint = TRUE]
                       /\ Goto("done")
    /\ UNCHANGED <<chain, backup, backup_xml, transient, drives, idx,
                   done_ids, listed, request>>

---------------------------------------------------------------------------
(* The specification. *)

\* What the caller keeps of the result it gets.
Kept ==
    IF exc = NoExc /\ (\/ op = "start_backup"
                       \/ op = "delete_checkpoints" /\ ret.code = VIR_OK)
    THEN [op |-> op, backup_id |-> cfg.backup_id, ids |-> cfg.ids,
          ret |-> ret]
    ELSE last

\* The operation returns or raises to its caller.
Return ==
    /\ pc = "done"
    /\ pc' = "idle"
    /\ op' = "none"
    /\ cfg' = NoCfg
    /\ drives' = <<>>
    /\ idx' = 0
    /\ done_ids' = <<>>
    /\ leaf0' = None
    /\ chain0' = <<>>
    /\ backup0' = None
    /\ transient0' = {}
    /\ listed' = <<>>
    /\ calls' = <<>>
    /\ exc' = NoExc
    /\ excAt' = ""
    /\ first' = ""
    /\ ret' = NoRet
    /\ last' = Kept
    /\ UNCHANGED <<chain, backup, backup_xml, transient, nops>>

Next ==
    \/ \E c \in BackupConfigs : StartBackup(c)
    \/ ValidateParentId
    \/ GetDisksDrives
    \/ CreateScratchDisk
    \/ RollbackCreate
    \/ Freeze
    \/ BeginBackup
    \/ RollbackTry
    \/ Thaw
    \/ AddCheckpointXml
    \/ \E b \in BackupIds : StopBackup(b)
    \/ CheckBackupExists
    \/ AbortJob
    \/ StopRemove
    \/ \E b \in BackupIds, cp \in OptCheckpointIds : BackupInfo(b, cp)
    \/ GetBackupInfo
    \/ \E ids \in SeqsNoRep(1..MaxIds, MaxIds) : DeleteCheckpoints(ids)
    \/ DeleteCheckpoint
    \/ \E cps \in UNION {[1..n -> CheckpointDefs] : n \in 0..MaxDefs} :
         RedefineCheckpoints(cps)
    \/ RedefineCheckpoint
    \/ \E id \in CheckpointIds : DumpCheckpoint(id)
    \/ GetCheckpointXml
    \/ Return

Spec == Init /\ [][Next]_vars

---------------------------------------------------------------------------
(* create_checkpoint_xml on its own. *)

\* The configs create_checkpoint_xml is given: by start_backup and by
\* redefine_checkpoints, whose disks may be left out of the checkpoint.
XmlDiskConfigs ==
    [scratch_disk : {FALSE}, backup_mode : {MODE_FULL, MODE_INCREMENTAL},
     checkpoint : BOOLEAN]

XmlConfigs ==
    [backup_id : {1},
     from_checkpoint_id : {None},
     to_checkpoint_id : OptCheckpointIds,
     parent_checkpoint_id : OptCheckpointIds,
     require_consistency : {FALSE},
     disks : UNION {[1..n -> XmlDiskConfigs] : n \in 0..MaxDisks},
     ids : {<<>>},
     checkpoints : {<<>>}]

InitXml ==
    /\ chain = <<>>
    /\ backup = None
    /\ backup_xml = NoBackupXml
    /\ transient = {}
    /\ pc = "xml"
    /\ op = "create_checkpoint_xml"
    /\ cfg \in XmlConfigs
    /\ drives = [k \in 1..Len(cfg.disks) |-> BackupDrive(cfg, k)]
    /\ idx = 0
    /\ done_ids = <<>>
    /\ leaf0 = None
    /\ chain0 = <<>>
    /\ backup0 = None
    /\ transient0 = {}
    /\ listed = <<>>
    /\ calls = <<>>
    /\ exc = NoExc
    /\ excAt = ""
    /\ first = ""
    /\ ret = NoRet
    /\ nops = 0
    /\ last = NoLast

\* create_checkpoint_xml(backup_cfg, drives); ret is what it returns.
CreateCheckpointXml ==
    /\ pc = "xml"
    /\ ret' = create_checkpoint_xml(cfg, drives)
    /\ pc' = "done"
    /\ UNCHANGED <<chain, backup, backup_xml, transient, op, cfg, drives, idx,
                   done_ids, leaf0, chain0, backup0, transient0, listed,
                   calls, exc, excAt, first, nops, last>>

NextXml == CreateCheckpointXml

SpecXml == InitXml /\ [][NextXml]_vars

---------------------------------------------------------------------------
(* start_backup without the per-VM serialization of its caller: the steps
   of delete_checkpoints and redefine_checkpoints that other threads run on
   the same domain interleave with the steps of start_backup. *)

OtherCalls == {"other.checkpoint.delete", "other.checkpointCreateXML"}

OtherSteps == {i \in 1..Len(calls) : calls[i].call \in OtherCalls}

\* start_backup is between two of its steps.
Interleavable ==
    /\ op = "start_backup"
    /\ pc \notin {"idle", "done"}
    /\ Cardinality(OtherSteps) < MaxOthers

\* checkpoint.delete() of a delete_checkpoints on another thread succeeds.
OtherCheckpointDelete(id) ==
    /\ Interleavable
    /\ id \in Range(chain)
    /\ chain' = SelectSeq(chain, LAMBDA x : x # id)
    /\ Log(<<Call("other.checkpoint.delete", <<id, "">>, VIR_OK)>>)
    /\ UNCHANGED <<backup, backup_xml, transient, pc, drives, idx, done_ids,
                   listed, exc, excAt, first, ret, request>>

\* dom.checkpointCreateXML of a redefine_checkpoints on another thread
\* succeeds and adds a checkpoint.
OtherCheckpointCreate(id) ==
    /\ Interleavable
    /\ id \notin Range(chain)
    /\ chain' = Append(chain, id)
    /\ Log(<<Call("other.checkpointCreateXML", <<id, "">>, VIR_OK)>>)
    /\ UNCHANGED <<backup, backup_xml, transient, pc, drives, idx, done_ids,
                   listed, exc, excAt, first, ret, request>>

NextUnlocked ==
    \/ \E c \in BackupConfigs : StartBackup(c)
    \/ ValidateParentId
    \/ GetDisksDrives
    \/ CreateScratchDisk
    \/ RollbackCreate
    \/ Freeze
    \/ BeginBackup
    \/ RollbackTry
    \/ Thaw
    \/ AddCheckpointXml
    \/ \E id \in CheckpointIds : OtherCheckpointDelete(id)
    \/ \E id \in CheckpointIds : OtherCheckpointCreate(id)

\* One start_backup, from its call to its return or its exception.
SpecUnlocked == Init /\ [][NextUnlocked]_vars

---------------------------------------------------------------------------
(* What the properties below speak of. *)

Starting == op = "start_backup"
Stopping == op = "stop_backup"
Deleting == op = "delete_checkpoints"
Finished == pc = "done"

Invoked(name) == Count(name, calls) > 0

\* The arguments of the calls of `name` that answered `res`.
Args(name, res) ==
    {calls[i].arg : i \in {j \in Pos(name, calls) : calls[j].res = res}}

AllArgs(name) == {calls[i].arg : i \in Pos(name, calls)}

\* Every call of `a` is made before every call of `b`.
Precedes(a, b) ==
    \A i \in Pos(a, calls), j \in Pos(b, calls) : i < j

\* The request got past BackupConfig and the check for an empty disk list.
ConfigAccepted == first \notin {"BackupConfig", "start_backup"}

---------------------------------------------------------------------------
(* C1 *)

\* C1, as stated: a start_backup that succeeds on a request with
\* from_checkpoint_id set had parent_checkpoint_id equal to the leaf of the
\* topological checkpoint listing before the start.
C1_FromSetImpliesParentIsLeaf ==
    (Starting /\ Finished /\ exc = NoExc /\ cfg.from_checkpoint_id # None)
        => cfg.parent_checkpoint_id = leaf0

\* C1, amended: a start_backup request that passes config validation and has
\* to_checkpoint_id set is rejected with CheckpointError, before any other
\* step, unless parent_checkpoint_id equals the leaf of the checkpoint
\* listing; hence success on such a request implies parent = leaf.
C1_ToSetImpliesParentIsLeaf ==
    (/\ Starting
     /\ pc \notin {"idle", "validate_parent"}
     /\ ConfigAccepted
     /\ cfg.to_checkpoint_id # None
     /\ cfg.parent_checkpoint_id # leaf0)
        => /\ pc = "done"
           /\ exc = CheckpointError
           /\ AllArgs("backupBegin") = {}

\* C1, witness: a chain-continuing request is rejected for its parent.
C1_Witness ==
    /\ Starting /\ Finished
    /\ cfg.from_checkpoint_id # None
    /\ cfg.to_checkpoint_id # None
    /\ leaf0 # None
    /\ cfg.parent_checkpoint_id # leaf0
    /\ exc = CheckpointError
    /\ excAt = "_validate_parent_id"

---------------------------------------------------------------------------
(* C2 *)

\* C2: in a start_backup that invoked freeze, thaw is invoked exactly once
\* and after the freeze, whatever happened in between; it is never invoked
\* twice.
C2_GuaranteedThaw ==
    Starting =>
        /\ Count("thaw", calls) <= 1
        /\ Precedes("freeze", "thaw")
        /\ (pc \in {"add_checkpoint_xml", "done"} /\ Invoked("freeze"))
               => Count("thaw", calls) = 1

\* C2, witness: begin-backup failed, then the rollback failed, and thaw ran.
C2_Witness ==
    /\ Starting /\ Finished
    /\ Invoked("freeze")
    /\ first = "_begin_backup"
    /\ excAt = "_remove_scratch_disks"
    /\ Count("thaw", calls) = 1

---------------------------------------------------------------------------
(* C3 *)

\* start_backup failed in _create_scratch_disks.
CreationFailed ==
    /\ Starting /\ Finished
    /\ first \in {"_get_drive_capacity", "_create_transient_disk"}

\* C3, as stated: after a failed scratch-disk creation no transient disk of
\* this backup id is left.
C3_NoScratchDiskLeft ==
    CreationFailed => \A d \in transient : d[1] # cfg.backup_id

\* C3, amended: when the creation of a scratch disk fails, the transient
\* disks of the VM are listed once and, unless the listing fails, a remove
\* call is made for each listed disk (the ones created so far included)
\* before the failure propagates; the disks left are exactly those whose
\* removal failed, and all of them when the listing failed.
C3_RollbackOfCreatedDisks ==
    CreationFailed =>
        LET created == Args("create_transient_disk", "ok")
            before == transient0 \cup created
        IN /\ Count("list_transient_disks", calls) = 1
           /\ Precedes("create_transient_disk", "list_transient_disks")
           /\ IF Res("list_transient_disks", calls) = "error"
              THEN /\ ~Invoked("remove_transient_disk")
                   /\ transient = before
              ELSE /\ AllArgs("remove_transient_disk") = before
                   /\ Count("remove_transient_disk", calls)
                        = Cardinality(before)
                   /\ transient = Args("remove_transient_disk", "error")

\* C3, witness: the second creation failed and the first disk was removed.
C3_Witness ==
    /\ CreationFailed
    /\ idx = 2
    /\ Args("create_transient_disk", "ok") # {}
    /\ Args("create_transient_disk", "error") # {}
    /\ Args("remove_transient_disk", "ok")
         = Args("create_transient_disk", "ok")
    /\ transient = {}

---------------------------------------------------------------------------
(* C4 *)

\* The order of the collaborator calls of one start_backup.
SessionOrder ==
    /\ Precedes("create_transient_disk", "freeze")
    /\ Precedes("freeze", "backupBegin")
    /\ Precedes("backupBegin", "thaw")
    /\ Invoked("backupBegin") => Invoked("freeze")
    /\ Invoked("thaw") => Invoked("freeze")

\* C4, as stated: the calls are ordered, and on any failure of start_backup
\* the scratch-disk rollback is invoked before the error leaves.
C4_RollbackOnAnyFailure ==
    Starting =>
        /\ SessionOrder
        /\ (Finished /\ exc # NoExc) => Invoked("list_transient_disks")

\* C4, amended: the calls are ordered, and on a failure of scratch-disk
\* creation (capacity query included), of a freeze with require_consistency
\* or of begin-backup the rollback is invoked once, after the failing call
\* and before the error leaves; a request rejected by config validation, the
\* leaf check or drive resolution leaves without a rollback.
C4_SessionOrdering ==
    Starting =>
        /\ SessionOrder
        /\ (Finished /\ exc # NoExc) =>
             IF first \in {"_get_drive_capacity", "_create_transient_disk",
                           "freeze", "_begin_backup"}
             THEN /\ Count("list_transient_disks", calls) = 1
                  /\ Precedes("blockInfo", "list_transient_disks")
                  /\ Precedes("create_transient_disk", "list_transient_disks")
                  /\ Precedes("freeze", "list_transient_disks")
                  /\ Precedes("backupBegin", "list_transient_disks")
             ELSE ~Invoked("list_transient_disks")

\* C4, witness: create, freeze, begin, rollback and thaw in one failing run.
C4_Witness ==
    /\ Starting /\ Finished
    /\ first = "_begin_backup"
    /\ Invoked("create_transient_disk")
    /\ Invoked("freeze")
    /\ Invoked("backupBegin")
    /\ Invoked("remove_transient_disk")
    /\ Invoked("thaw")

---------------------------------------------------------------------------
(* C5 *)

\* stop_backup got an answer about the backup job: _get_backup_xml did not
\* raise an error that _backup_exists lets through.
AbortStepDone == Stopping /\ Finished /\ first # "_get_backup_xml"

\* C5, as stated: stop_backup runs the scratch-disk removal after the abort
\* step whatever its outcome: no session found, abort succeeded, abort
\* failed with 'operation invalid' or with any other error.
C5_RemovalAfterEveryAbortOutcome ==
    AbortStepDone =>
        /\ Count("list_transient_disks", calls) = 1
        /\ Precedes("abortJob", "list_transient_disks")

\* C5, amended: stop_backup runs the scratch-disk removal after the abort
\* step when no session was found, when abort succeeded and when abort
\* failed with 'operation invalid'; when abort fails with any other
\* hypervisor error stop_backup raises BackupError at once and neither lists
\* nor removes a transient disk.
C5_RemovalUnlessAbortEscalates ==
    AbortStepDone =>
        IF Invoked("abortJob")
           /\ Res("abortJob", calls)
                \notin {VIR_OK, VIR_ERR_OPERATION_INVALID}
        THEN /\ exc = BackupError
             /\ ~Invoked("list_transient_disks")
             /\ ~Invoked("remove_transient_disk")
             /\ transient = transient0
        ELSE /\ Count("list_transient_disks", calls) = 1
             /\ Precedes("abortJob", "list_transient_disks")
             /\ Precedes("list_transient_disks", "remove_transient_disk")

\* C5, witness: abort succeeded and the scratch disks were removed after it.
C5_Witness ==
    /\ Stopping /\ Finished
    /\ Invoked("abortJob")
    /\ Res("abortJob", calls) = VIR_OK
    /\ Args("remove_transient_disk", "ok") # {}
    /\ exc = NoExc

---------------------------------------------------------------------------
(* C6 *)

\* stop_backup was told that the domain runs no backup, or that the VM is
\* not connected.
NoSessionFound ==
    /\ Stopping /\ Finished
    /\ Res("backupGetXMLDesc", calls)
         \in {VIR_ERR_NO_DOMAIN_BACKUP, NOT_CONNECTED}

\* C6, as stated: with no active backup, or with the VM not connected,
\* stop_backup makes no abort call, attempts the cleanup and returns
\* without error.
C6_StopWithoutSessionNeverFails ==
    NoSessionFound =>
        /\ ~Invoked("abortJob")
        /\ Count("list_transient_disks", calls) = 1
        /\ exc = NoExc

\* C6, amended: with no active backup, or with the VM not connected,
\* stop_backup makes no abort call, leaves the domain's backup job and
\* checkpoints as they are, attempts the cleanup once, and returns without
\* error unless listing the transient disks fails, in which case it raises
\* BackupError; so does every repetition of the call in that state.
C6_IdempotentStop ==
    NoSessionFound =>
        /\ ~Invoked("abortJob")
        /\ backup = backup0
        /\ Count("list_transient_disks", calls) = 1
        /\ exc = (IF Res("list_transient_disks", calls) = "ok"
                  THEN NoExc ELSE BackupError)
        /\ exc = NoExc => /\ ret.kind = "None"
                          /\ transient
                               = Args("remove_transient_disk", "error")

\* C6, witness: a second stop_backup in a row finds no session, has nothing
\* to remove and returns.
C6_Witness ==
    /\ NoSessionFound
    /\ nops = 2
    /\ backup0 = None
    /\ transient0 = {}
    /\ exc = NoExc

---------------------------------------------------------------------------
(* C7 *)

\* C7: stop_backup(id) calls abortJob only when the domain's active backup
\* job is the one of backup id `id`; it does not abort the job of another
\* backup id.
C7_AbortOnlyOwnSession ==
    (Stopping /\ Invoked("abortJob")) => backup0 = cfg.backup_id

---------------------------------------------------------------------------
(* C8 *)

AbortFailed ==
    /\ Stopping /\ Finished
    /\ Invoked("abortJob")
    /\ Res("abortJob", calls) # VIR_OK

\* C8, as stated: when abortJob fails, stop_backup returns normally for
\* 'operation invalid' and fails with BackupError for any other error.
C8_OperationInvalidReturnsNormally ==
    AbortFailed =>
        IF Res("abortJob", calls) = VIR_ERR_OPERATION_INVALID
        THEN exc = NoExc
        ELSE exc = BackupError

\* C8, amended: when abortJob fails with 'operation invalid' the error is
\* swallowed: stop_backup goes on to the scratch-disk removal and returns
\* normally, unless listing the transient disks fails (BackupError); when
\* abortJob fails with any other hypervisor error stop_backup fails with
\* BackupError raised for the abort.
C8_AbortErrorClassification ==
    AbortFailed =>
        IF Res("abortJob", calls) = VIR_ERR_OPERATION_INVALID
        THEN /\ first # "abortJob"
             /\ Count("list_transient_disks", calls) = 1
             /\ exc = (IF Res("list_transient_disks", calls) = "ok"
                       THEN NoExc ELSE BackupError)
        ELSE /\ exc = BackupError
             /\ excAt = "abortJob"

\* C8, witness: abortJob said 'operation invalid' and stop_backup returned.
C8_Witness ==
    /\ AbortFailed
    /\ Res("abortJob", calls) = VIR_ERR_OPERATION_INVALID
    /\ exc = NoExc
    /\ ret.kind = "None"

---------------------------------------------------------------------------
(* C9 *)

\* C9: a scratch-disk removal for backup id X, by a failing start_backup(X)
\* or by stop_backup(X), removes only transient disks created for X; it
\* does not ask the storage server to remove a transient disk created for
\* another backup id Y while the backup job of Y is active.
C9_RemovesOnlyOwnDisks ==
    (Starting \/ Stopping) =>
        \A d \in AllArgs("remove_transient_disk") :
            d[1] # cfg.backup_id => d[1] # backup

---------------------------------------------------------------------------
(* C10 *)

\* The calls that failed with an error that ends delete_checkpoints.
HardFailures ==
    {i \in 1..Len(calls) :
        calls[i].res \notin {VIR_OK, VIR_ERR_NO_DOMAIN_CHECKPOINT}}

\* The ids delete_checkpoints looked up, in the order of the calls.
LookedUp ==
    LET at == SelectSeq([i \in 1..Len(calls) |-> i],
                        LAMBDA i : calls[i].call = "checkpointLookupByName")
    IN [k \in 1..Len(at) |-> calls[at[k]].arg[1]]

\* C10: delete_checkpoints handles the ids in the order given; at the first
\* lookup or deletion that fails with an error other than 'no such
\* checkpoint' it stops, touches no later id and returns, without raising,
\* the ids handled before the failing one with the code of the error; with
\* no such failure it returns all the ids and no error.
C10_PartialBulkDelete ==
    Deleting =>
        /\ exc = NoExc
        /\ LookedUp = SubSeq(cfg.ids, 1, Len(LookedUp))
        /\ \A i \in Pos("checkpoint.delete", calls) :
             /\ i > 1
             /\ calls[i - 1] = Call("checkpointLookupByName", calls[i].arg,
                                    VIR_OK)
        /\ Finished =>
             IF HardFailures # {}
             THEN /\ HardFailures = {Len(calls)}
                  /\ ret.kind = "checkpoint_ids"
                  /\ ret.ids = SubSeq(cfg.ids, 1, Len(LookedUp) - 1)
                  /\ ret.code = calls[Len(calls)].res
             ELSE /\ ret.kind = "checkpoint_ids"
                  /\ ret.ids = cfg.ids
                  /\ ret.code = VIR_OK
                  /\ LookedUp = cfg.ids

\* C10, witness: of three ids the second fails to delete; the first is
\* returned with the error and the third is not looked up.
C10_Witness ==
    /\ Deleting /\ Finished
    /\ Len(cfg.ids) = 3
    /\ Len(LookedUp) = 2
    /\ calls[Len(calls)] = Call("checkpoint.delete", <<cfg.ids[2], "">>,
                                VIR_ERR_INTERNAL_ERROR)
    /\ ret.ids = <<cfg.ids[1]>>
    /\ ret.code = VIR_ERR_INTERNAL_ERROR
    /\ calls[2] = Call("checkpoint.delete", <<cfg.ids[1], "">>, VIR_OK)

---------------------------------------------------------------------------
(* C11 *)

Redefining == op = "redefine_checkpoints"
Informing == op = "backup_info"

\* C11: delete_checkpoints treats an id whose checkpoint is absent as
\* deleted: the id is among the ids it returns and the loop goes on with
\* the next id; so a delete_checkpoints(ids) that repeats one that reported
\* no error, and in which no hypervisor call fails with another error,
\* returns the same ids and no error.
C11_IdempotentDelete ==
    Deleting =>
        /\ \A i \in Pos("checkpointLookupByName", calls) :
             calls[i].res = VIR_ERR_NO_DOMAIN_CHECKPOINT =>
                 /\ calls[i].arg[1] \in Range(done_ids)
                 /\ (pc = "done" /\ i = Len(calls)) =>
                        /\ ret.code = VIR_OK
                        /\ ret.ids = cfg.ids
        /\ (/\ Finished
            /\ last.op = "delete_checkpoints"
            /\ last.ids = cfg.ids
            /\ HardFailures = {})
               => /\ ret = last.ret
                  /\ ret.ids = cfg.ids
                  /\ ret.code = VIR_OK

\* C11, witness: a delete of two ids is repeated; both checkpoints are
\* absent and both ids are returned again, with no error.
C11_Witness ==
    /\ Deleting /\ Finished
    /\ nops = 2
    /\ last.op = "delete_checkpoints"
    /\ last.ids = cfg.ids
    /\ Len(cfg.ids) = 2
    /\ Range(cfg.ids) \subseteq CheckpointIds
    /\ Len(calls) = 2
    /\ \A i \in 1..2 :
         calls[i] = Call("checkpointLookupByName", <<cfg.ids[i], "">>,
                         VIR_ERR_NO_DOMAIN_CHECKPOINT)
    /\ ret = last.ret
    /\ ret.ids = cfg.ids

---------------------------------------------------------------------------
(* C12 *)

\* C12: redefine_checkpoints never raises: when handling the k-th
\* definition fails for any reason (the hypervisor rejects it, it carries
\* neither XML nor config, its config is invalid, a disk of it cannot be
\* resolved) it returns the ids of definitions 1..k-1 with the error and
\* handles no later definition; with no failure it returns all the ids.
C12_PartialBulkRedefine ==
    Redefining =>
        /\ exc = NoExc
        /\ Finished =>
             /\ ret.kind = "checkpoint_ids"
             /\ ret.ids = [k \in 1..Len(ret.ids) |-> cfg.checkpoints[k].id]
             /\ Count("checkpointCreateXML", calls) <= Len(ret.ids) + 1
             /\ \/ ret.code # VIR_OK
                \/ Len(ret.ids) = Len(cfg.checkpoints)

---------------------------------------------------------------------------
(* C13 *)

\* The calls that touch a resource: a transient disk, the guest's
\* filesystems, the domain's backup job.
ResourceCalls ==
    {"blockInfo", "create_transient_disk", "list_transient_disks",
     "remove_transient_disk", "freeze", "thaw", "backupBegin", "abortJob"}

\* start_backup got a request that config validation or the parent check
\* rejects, or has rejected it.
Rejected ==
    /\ Starting
    /\ \/ BackupConfigInit(cfg) # NoExc
       \/ cfg.disks = <<>>
       \/ cfg.to_checkpoint_id # None /\ cfg.parent_checkpoint_id # leaf0
       \/ first \in {"BackupConfig", "start_backup", "_validate_parent_id",
                     "_get_leaf_checkpoint_name"}

\* C13: a start_backup whose request is rejected by config validation or
\* by the parent/leaf check creates and removes no transient disk, never
\* invokes freeze, thaw or begin-backup, and leaves the transient disks,
\* the backup job and the checkpoints as they were.
C13_RejectionTouchesNothing ==
    Rejected =>
        /\ \A i \in 1..Len(calls) : calls[i].call \notin ResourceCalls
        /\ transient = transient0
        /\ backup = backup0
        /\ chain = chain0
        /\ pc \in {"validate_parent", "done"}
        /\ Finished => exc \in {BackupError, CheckpointError}

\* C13, witness: a request is rejected for its parent while the VM holds a
\* transient disk; the disk is still there.
C13_Witness ==
    /\ Starting /\ Finished
    /\ first = "_validate_parent_id"
    /\ transient0 # {}
    /\ transient = transient0
    /\ calls = <<ListedCall(VIR_OK, chain)>>

---------------------------------------------------------------------------
(* C14 *)

IncrementalWithoutFrom(c) ==
    /\ c.from_checkpoint_id = None
    /\ \E k \in 1..Len(c.disks) : c.disks[k].backup_mode = MODE_INCREMENTAL

FromWithoutParent(c) ==
    c.from_checkpoint_id # None /\ c.parent_checkpoint_id = None

\* C14: start_backup rejects, with BackupError and before any hypervisor
\* or storage call, a request with a disk in incremental mode and no
\* from_checkpoint_id, a request with from_checkpoint_id and no
\* parent_checkpoint_id (both when the config is constructed), and a
\* request with no disk.
C14_ConfigInvariants ==
    (/\ Starting
     /\ \/ IncrementalWithoutFrom(cfg)
        \/ FromWithoutParent(cfg)
        \/ cfg.disks = <<>>)
        => /\ pc = "done"
           /\ exc = BackupError
           /\ calls = <<>>
           /\ excAt = (IF IncrementalWithoutFrom(cfg) \/ FromWithoutParent(cfg)
                       THEN "BackupConfig" ELSE "start_backup")
           /\ transient = transient0 /\ backup = backup0 /\ chain = chain0

\* C14, witness: an incremental disk without from_checkpoint_id is rejected
\* by the constructor.
C14_Witness ==
    /\ Starting /\ Finished
    /\ IncrementalWithoutFrom(cfg)
    /\ cfg.parent_checkpoint_id # None
    /\ exc = BackupError
    /\ excAt = "BackupConfig"
    /\ calls = <<>>

---------------------------------------------------------------------------
(* C15 *)

FreezeError ==
    /\ Starting
    /\ Invoked("freeze")
    /\ Res("freeze", calls) = "error"

\* C15: when freeze reports an error and require_consistency is set,
\* begin-backup is never invoked, the scratch-disk rollback runs and
\* start_backup fails; when freeze reports an error and require_consistency
\* is not set, start_backup goes on to invoke begin-backup.
C15_FreezeFailure ==
    FreezeError =>
        IF cfg.require_consistency
        THEN /\ ~Invoked("backupBegin")
             /\ first = "freeze"
             /\ exc # NoExc
             /\ pc \in {"rollback_try", "thaw", "done"}
             /\ pc # "rollback_try" =>
                  /\ Count("list_transient_disks", calls) = 1
                  /\ Precedes("freeze", "list_transient_disks")
        ELSE /\ first # "freeze"
             /\ pc = "begin" \/ Count("backupBegin", calls) = 1

\* C15, witness: a strict freeze failed, the scratch disk was removed and
\* start_backup failed without a begin-backup.
C15_Witness ==
    /\ FreezeError /\ Finished
    /\ cfg.require_consistency
    /\ Args("create_transient_disk", "ok") # {}
    /\ Args("remove_transient_disk", "ok")
         = Args("create_transient_disk", "ok")
    /\ ~Invoked("backupBegin")
    /\ exc = BackupError
    /\ excAt = "freeze"

---------------------------------------------------------------------------
(* C16 *)

\* C16, as stated: when begin-backup fails, start_backup rolls back the
\* scratch disks and fails with InconsistentCheckpointError if the hypervisor signalled
\* checkpoint inconsistency, with BackupError otherwise.
C16_BeginFailureClassified ==
    (Starting /\ Finished /\ first = "_begin_backup") =>
        /\ Count("list_transient_disks", calls) = 1
        /\ Precedes("backupBegin", "list_transient_disks")
        /\ exc = (IF Res("backupBegin", calls)
                        = VIR_ERR_CHECKPOINT_INCONSISTENT
                  THEN InconsistentCheckpointError
                  ELSE BackupError)

\* C16, amended: when begin-backup fails, start_backup runs the
\* scratch-disk rollback once and fails; the error is
\* InconsistentCheckpointError if the hypervisor signalled checkpoint
\* inconsistency and BackupError otherwise, unless the rollback fails to
\* list the transient disks: then it is the BackupError of the rollback.
C16_BeginFailureThenRollback ==
    (Starting /\ Finished /\ first = "_begin_backup") =>
        /\ Count("list_transient_disks", calls) = 1
        /\ Precedes("backupBegin", "list_transient_disks")
        /\ IF Res("list_transient_disks", calls) = "error"
           THEN exc = BackupError /\ excAt = "_remove_scratch_disks"
           ELSE /\ excAt = "_begin_backup"
                /\ exc = (IF Res("backupBegin", calls)
                                = VIR_ERR_CHECKPOINT_INCONSISTENT
                          THEN InconsistentCheckpointError
                          ELSE BackupError)

\* C16, witness: the hypervisor signals checkpoint inconsistency, the
\* scratch disk is removed and start_backup fails with
\* InconsistentCheckpointError.
C16_Witness ==
    /\ Starting /\ Finished
    /\ first = "_begin_backup"
    /\ Res("backupBegin", calls) = VIR_ERR_CHECKPOINT_INCONSISTENT
    /\ Args("remove_transient_disk", "ok") # {}
    /\ transient = {}
    /\ exc = InconsistentCheckpointError

---------------------------------------------------------------------------
(* C17 *)

\* C17, as stated: a failure of the scratch-disk cleanup, a failure to list the
\* transient disks included, never replaces the primary outcome: a failing
\* start_backup (scratch creation, strict freeze or begin-backup failed)
\* reports the primary failure, and the cleanup does not make stop_backup
\* fail.
C17_CleanupNeverEscalates ==
    /\ (/\ Starting /\ Finished
        /\ first \in {"_get_drive_capacity", "_create_transient_disk",
                      "freeze", "_begin_backup"})
           => excAt = first
    /\ (Stopping /\ Finished) => excAt # "_remove_scratch_disks"

\* start_backup failed at scratch creation, at a strict freeze or at
\* begin-backup.
PrimaryFailure ==
    /\ Starting /\ Finished
    /\ first \in {"_get_drive_capacity", "_create_transient_disk", "freeze",
                  "_begin_backup"}

\* C17, amended: a failure to remove a scratch disk during cleanup is
\* logged and never escalates: a failing start_backup still reports its
\* primary failure and stop_backup still returns.  A failure to list the
\* transient disks does escalate: the cleanup raises BackupError, which
\* replaces the primary failure of start_backup and makes stop_backup fail.
C17_OnlyListingFailureEscalates ==
    /\ PrimaryFailure =>
         IF Res("list_transient_disks", calls) = "error"
         THEN exc = BackupError /\ excAt = "_remove_scratch_disks"
         ELSE excAt = first /\ exc # NoExc
    /\ (Stopping /\ Finished /\ Invoked("list_transient_disks")) =>
         IF Res("list_transient_disks", calls) = "error"
         THEN exc = BackupError /\ excAt = "_remove_scratch_disks"
         ELSE exc = NoExc /\ ret.kind = "None"

\* C17, witness: begin-backup fails, the removal of the scratch disk fails
\* too, and start_backup reports the failure of begin-backup.
C17_Witness ==
    /\ PrimaryFailure
    /\ first = "_begin_backup"
    /\ Args("remove_transient_disk", "error") # {}
    /\ transient # {}
    /\ excAt = "_begin_backup"
    /\ exc = InconsistentCheckpointError

---------------------------------------------------------------------------
(* C18 *)

\* _remove_scratch_disks ran and got the listing of the transient disks.
Listed ==
    /\ Starting \/ Stopping
    /\ Invoked("list_transient_disks")
    /\ Res("list_transient_disks", calls) = "ok"

\* C18: _remove_scratch_disks makes, in the order of the listing, exactly
\* one remove call for each transient disk listed for the VM and none for
\* another disk; on an empty listing it makes none; when the removal of a
\* disk fails it goes on with the remaining disks and returns normally,
\* leaving the disks whose removal failed.
C18_RemovesExactlyTheListed ==
    Listed =>
        LET at == CHOOSE i \in Pos("list_transient_disks", calls) : TRUE
        IN /\ at + Len(listed) = Len(calls) - Count("thaw", calls)
           /\ \A k \in 1..Len(listed) :
                /\ calls[at + k].call = "remove_transient_disk"
                /\ calls[at + k].arg = listed[k]
           /\ Count("remove_transient_disk", calls) = Len(listed)
           /\ Cardinality(Range(listed)) = Len(listed)
           /\ Range(listed)
                = transient0 \cup Args("create_transient_disk", "ok")
           /\ transient = Args("remove_transient_disk", "error")
           /\ excAt # "_remove_scratch_disks"
           /\ Stopping => exc = NoExc

\* C18, witness: of two listed disks the removal of the first fails; the
\* second is removed all the same and stop_backup returns.
C18_Witness ==
    /\ Listed /\ Stopping /\ Finished
    /\ Len(listed) = 2
    /\ calls[Len(calls) - 1]
         = Call("remove_transient_disk", listed[1], "error")
    /\ calls[Len(calls)] = Call("remove_transient_disk", listed[2], "ok")
    /\ transient = {listed[1]}
    /\ exc = NoExc

---------------------------------------------------------------------------
(* C19 *)

\* C19: backup_info is read-only: whether it succeeds or fails it invokes
\* no abort, begin-backup, freeze, thaw, creation or removal of a transient
\* disk, creation or deletion of a checkpoint, and leaves the backup job,
\* the checkpoints and the transient disks as they were; when the
\* hypervisor reports no active backup it fails with NoSuchBackupError.
C19_InfoIsReadOnly ==
    Informing =>
        /\ \A i \in 1..Len(calls) :
             calls[i].call \in {"backupGetXMLDesc", "checkpointLookupByName",
                                "checkpoint.getXMLDesc"}
        /\ chain = chain0
        /\ backup = backup0
        /\ transient = transient0
        /\ (backup = None) = (backup_xml = NoBackupXml)
        /\ (/\ Invoked("backupGetXMLDesc")
            /\ Res("backupGetXMLDesc", calls) = VIR_ERR_NO_DOMAIN_BACKUP)
               => /\ pc = "done"
                  /\ exc = NoSuchBackupError
                  /\ Len(calls) = 1

\* C19, witness: backup_info, asked for a checkpoint too, finds no backup
\* job and fails with NoSuchBackupError while the VM holds a transient
\* disk.
C19_Witness ==
    /\ Informing /\ Finished
    /\ cfg.to_checkpoint_id # None
    /\ Res("backupGetXMLDesc", calls) = VIR_ERR_NO_DOMAIN_BACKUP
    /\ exc = NoSuchBackupError
    /\ transient # {}

---------------------------------------------------------------------------
(* C20 *)

\* C20: start_backup returns one export for each disk of the request, by
\* the image id of the disk, with the URL of the drive's name at the
\* address of the backup id; backup_info on the session a start_backup
\* started returns the same disks mapping that start_backup returned.
C20_InfoUrlsAsStart ==
    /\ (Starting /\ Finished /\ exc = NoExc) =>
         /\ ret.disks = {<<ImageIds[k],
                           Url(socket_path(cfg.backup_id), DriveNames[k])>> :
                            k \in 1..Len(cfg.disks)}
         /\ Cardinality(ret.disks) = Len(cfg.disks)
    /\ (/\ Informing /\ Finished /\ exc = NoExc
        /\ last.op = "start_backup"
        /\ last.backup_id = cfg.backup_id
        /\ backup = cfg.backup_id)
           => ret.disks = last.ret.disks

\* C20, witness: backup_info on the session of a start_backup of two disks
\* returns the two exports start_backup returned.
C20_Witness ==
    /\ Informing /\ Finished /\ exc = NoExc
    /\ last.op = "start_backup"
    /\ last.backup_id = cfg.backup_id
    /\ backup = cfg.backup_id
    /\ Cardinality(last.ret.disks) = 2
    /\ ret.disks = last.ret.disks
    /\ ret.kind = "disks"

---------------------------------------------------------------------------
(* C21 *)

\* The outcome of the fetch of the checkpoint: VIR_OK when the lookup and
\* the dump succeeded, "none" when no fetch was made.
Fetched ==
    IF Invoked("checkpoint.getXMLDesc")
    THEN Res("checkpoint.getXMLDesc", calls)
    ELSE IF Invoked("checkpointLookupByName")
         THEN Res("checkpointLookupByName", calls)
         ELSE "none"

\* C21: once begin-backup succeeded, start_backup returns the disks
\* mapping whether or not the lookup or the dump of the requested
\* checkpoint fails; the result carries a checkpoint descriptor exactly
\* when to_checkpoint_id was requested and the fetch succeeded, and a
\* failing fetch is followed by no scratch-disk rollback.
C21_BestEffortCheckpointFetch ==
    (/\ Starting /\ Finished
     /\ Invoked("backupBegin")
     /\ Res("backupBegin", calls) = VIR_OK)
        => /\ exc = NoExc
           /\ ret.kind = "disks"
           /\ Cardinality(ret.disks) = Len(cfg.disks)
           /\ (cfg.to_checkpoint_id = None) = (Fetched = "none")
           /\ ret.checkpoint = (Fetched = VIR_OK)
           /\ ~Invoked("list_transient_disks")
           /\ ~Invoked("remove_transient_disk")
           /\ backup = cfg.backup_id

\* C21, witness: the dump of the new checkpoint fails; start_backup
\* returns the disks without a checkpoint descriptor and keeps the scratch
\* disk.
C21_Witness ==
    /\ Starting /\ Finished
    /\ Invoked("backupBegin")
    /\ Res("backupBegin", calls) = VIR_OK
    /\ cfg.to_checkpoint_id # None
    /\ Fetched = VIR_ERR_INTERNAL_ERROR
    /\ Invoked("checkpoint.getXMLDesc")
    /\ exc = NoExc
    /\ ret.disks # {}
    /\ ~ret.checkpoint
    /\ transient # {}

---------------------------------------------------------------------------
(* C22 *)

Dumping == op = "dump_checkpoint"

\* The code of the libvirtError that made dump_checkpoint fail.
DumpFailure == calls[Len(calls)].res

\* C22, as stated: dump_checkpoint fails with NoSuchCheckpointError when
\* the checkpoint is absent and with CheckpointError for every other
\* failure of the hypervisor.
C22_DumpErrorKinds ==
    (Dumping /\ Finished) =>
        exc = (CASE DumpFailure = VIR_OK -> NoExc
                 [] DumpFailure = VIR_ERR_NO_DOMAIN_CHECKPOINT ->
                      NoSuchCheckpointError
                 [] OTHER -> CheckpointError)

\* C22, amended: dump_checkpoint fails with NoSuchCheckpointError when the
\* checkpoint is absent; every other libvirtError, of the lookup or of the
\* dump, leaves dump_checkpoint as it is, wrapped in no error of vdsm;
\* with no failure it returns the descriptor.
C22_DumpReraisesOtherErrors ==
    (Dumping /\ Finished) =>
        /\ exc = (CASE DumpFailure = VIR_OK -> NoExc
                    [] DumpFailure = VIR_ERR_NO_DOMAIN_CHECKPOINT ->
                         NoSuchCheckpointError
                    [] OTHER -> libvirtError)
        /\ (exc = NoExc) = (ret.kind = "checkpoint")
        /\ chain = chain0

\* C22, witness: the checkpoint is absent and dump_checkpoint fails with
\* NoSuchCheckpointError.
C22_Witness ==
    /\ Dumping /\ Finished
    /\ calls = <<Call("checkpointLookupByName", <<cfg.to_checkpoint_id, "">>,
                      VIR_ERR_NO_DOMAIN_CHECKPOINT)>>
    /\ exc = NoSuchCheckpointError

---------------------------------------------------------------------------
(* C23 *)

Described == op = "create_checkpoint_xml" /\ pc = "done"

\* The disks of the config that are included in the checkpoint.
Flagged == {k \in 1..Len(cfg.disks) : cfg.disks[k].checkpoint}

\* The descriptor holds exactly one bitmap entry for each disk of the
\* config that is included in the checkpoint.
OneEntryPerFlaggedDisk ==
    /\ Len(ret.disks) = Cardinality(Flagged)
    /\ \A k \in Flagged :
         Cardinality({i \in 1..Len(ret.disks) :
                         ret.disks[i].name = DriveNames[k]}) = 1
    /\ \A i \in 1..Len(ret.disks) :
         /\ ret.disks[i].bitmap = cfg.to_checkpoint_id
         /\ \E k \in Flagged : ret.disks[i].name = DriveNames[k]

\* C23, as stated: create_checkpoint_xml returns no descriptor without
\* to_checkpoint_id; else the disks section holds exactly one bitmap entry
\* for each disk included in the checkpoint, and is omitted, not emitted
\* empty, when there is no such entry.
C23_DisksOmittedWhenNoEntry ==
    Described =>
        IF cfg.to_checkpoint_id = None
        THEN ret = NoCheckpointXml
        ELSE /\ OneEntryPerFlaggedDisk
             /\ ret.has_disks = (Flagged # {})

\* C23, amended: create_checkpoint_xml returns no descriptor without
\* to_checkpoint_id; else the disks section, when present, holds exactly
\* one bitmap entry for each disk included in the checkpoint; the section
\* is omitted when the config has no disk at all, and is emitted empty
\* when the config has disks of which none is included in the checkpoint.
C23_DisksOmittedWhenNoDisk ==
    Described =>
        IF cfg.to_checkpoint_id = None
        THEN ret = NoCheckpointXml
        ELSE /\ ret.name = cfg.to_checkpoint_id
             /\ OneEntryPerFlaggedDisk
             /\ ret.has_disks = (cfg.disks # <<>>)

\* C23, witness: of two disks only the second is included in the
\* checkpoint; the disks section holds its entry alone.
C23_Witness ==
    /\ Described
    /\ cfg.to_checkpoint_id # None
    /\ Len(cfg.disks) = 2
    /\ Flagged = {2}
    /\ ret.has_disks
    /\ ret.disks = <<[name |-> DriveNames[2],
                      bitmap |-> cfg.to_checkpoint_id]>>

---------------------------------------------------------------------------
(* C24 *)

\* The argument of the call of `name`.
ArgOf(name) == calls[CHOOSE i \in Pos(name, calls) : TRUE].arg

\* C24: operations on the VM being serialized, whenever start_backup hands
\* a checkpoint descriptor to begin-backup the parent of the descriptor is
\* the leaf of the domain's checkpoints at that moment, or the descriptor
\* has no parent and the domain has no checkpoint; so a checkpoint that
\* start_backup adds is appended to the one chain, after its leaf.
C24_DescriptorParentIsLeaf ==
    (Starting /\ Invoked("backupBegin") /\ cfg.to_checkpoint_id # None) =>
        /\ ArgOf("backupBegin").name = cfg.to_checkpoint_id
        /\ ArgOf("backupBegin").parent
             = (IF chain0 = <<>> THEN None ELSE chain0[Len(chain0)])
        /\ chain = (IF Res("backupBegin", calls) = VIR_OK
                    THEN Append(chain0, cfg.to_checkpoint_id)
                    ELSE chain0)

\* C24, witness: a start_backup adds a checkpoint to a domain that has
\* one; its descriptor names that one as the parent.
C24_Witness ==
    /\ Starting /\ Finished /\ exc = NoExc
    /\ cfg.to_checkpoint_id # None
    /\ chain0 # <<>>
    /\ Invoked("backupBegin")
    /\ ArgOf("backupBegin").parent = chain0[Len(chain0)]
    /\ chain = Append(chain0, cfg.to_checkpoint_id)

---------------------------------------------------------------------------
(* C25 *)

\* The create calls made for drive k of the request.
CreateCalls(k) ==
    {i \in Pos("create_transient_disk", calls) :
        calls[i].arg = <<cfg.backup_id, DriveNames[k]>>}

\* C25: for each drive without a scratch disk of the engine
\* _create_scratch_disks makes exactly one create call, named
\* {backup_id}.{drive_name} and sized to the capacity blockInfo reports for
\* the drive, and none for a drive that has one; when begin-backup is
\* invoked every drive of the session has a scratch disk.
C25_ScratchDiskPerDrive ==
    Starting =>
        /\ \A i \in Pos("create_transient_disk", calls) :
             \E k \in 1..Len(cfg.disks) :
                /\ ~cfg.disks[k].scratch_disk
                /\ CreateCalls(k) = {i}
                /\ calls[i].size = BlockInfo(drives[k])[1]
                /\ calls[i].size = 10 * k
                /\ i > 1
                /\ calls[i - 1].call = "blockInfo"
                /\ calls[i - 1].arg = calls[i].arg
                /\ calls[i - 1].size[1] = calls[i].size
        /\ Invoked("freeze") =>
             \A k \in 1..Len(cfg.disks) :
                Cardinality(CreateCalls(k))
                    = (IF cfg.disks[k].scratch_disk THEN 0 ELSE 1)
        /\ Invoked("backupBegin") =>
             /\ Len(drives) = Len(cfg.disks)
             /\ \A k \in 1..Len(drives) :
                  /\ drives[k].scratch_disk
                       = (IF cfg.disks[k].scratch_disk THEN "engine"
                          ELSE "file")
                  /\ ~cfg.disks[k].scratch_disk
                       => <<cfg.backup_id, DriveNames[k]>>
                             \in Args("create_transient_disk", "ok")

\* C25, witness: of two drives the first has a scratch disk of the engine;
\* one disk is created, for the second, and begin-backup is invoked.
C25_Witness ==
    /\ Starting
    /\ Invoked("backupBegin")
    /\ Len(cfg.disks) = 2
    /\ cfg.disks[1].scratch_disk
    /\ ~cfg.disks[2].scratch_disk
    /\ Count("create_transient_disk", calls) = 1
    /\ Args("create_transient_disk", "ok") = {<<cfg.backup_id, DriveNames[2]>>}

---------------------------------------------------------------------------
(* C26 *)

\* C26: a start_backup that fails once the creation of the scratch disks
\* was attempted (a creation, a strict freeze or begin-backup fails) runs
\* the scratch-disk removal exactly once: the transient disks are listed
\* once, and no disk is asked to be removed twice.
C26_CleanupExactlyOnce ==
    PrimaryFailure =>
        /\ Count("list_transient_disks", calls) = 1
        /\ Count("remove_transient_disk", calls)
             = Cardinality(AllArgs("remove_transient_disk"))
        /\ Res("list_transient_disks", calls) = "ok"
             => Count("remove_transient_disk", calls) = Len(listed)

\* C26, witness: a strict freeze fails after two scratch disks were
\* created; they are listed once and removed once each.
C26_Witness ==
    /\ PrimaryFailure
    /\ first = "freeze"
    /\ Count("create_transient_disk", calls) = 2
    /\ Count("list_transient_disks", calls) = 1
    /\ Count("remove_transient_disk", calls) = 2
    /\ transient = {}

---------------------------------------------------------------------------
(* C27 *)

\* start_backup failed before the freeze step.
FailedBeforeFreeze ==
    /\ Starting
    /\ first \in {"BackupConfig", "start_backup", "_validate_parent_id",
                  "_get_leaf_checkpoint_name", "_get_disks_drives",
                  "_get_drive_capacity", "_create_transient_disk"}

\* C27: a start_backup that fails before the freeze step (at config
\* validation, the parent check, drive resolution or the creation of a
\* scratch disk) invokes neither freeze nor thaw nor begin-backup.
C27_NoFreezeBeforeTry ==
    FailedBeforeFreeze =>
        /\ ~Invoked("freeze")
        /\ ~Invoked("thaw")
        /\ ~Invoked("backupBegin")
        /\ pc \in {"rollback_create", "done"}
        /\ backup = backup0

\* C27, witness: the creation of a scratch disk fails and the rollback
\* runs; start_backup leaves without freeze, thaw or begin-backup.
C27_Witness ==
    /\ FailedBeforeFreeze /\ Finished
    /\ first = "_create_transient_disk"
    /\ Invoked("list_transient_disks")
    /\ calls[Len(calls)].call \in {"list_transient_disks",
                                    "remove_transient_disk"}
    /\ ~Invoked("thaw")

---------------------------------------------------------------------------
(* C28 *)

\* A step removes a transient disk of the VM.
DiskRemoved == \E d \in transient : d \notin transient'

\* C28: a start_backup that succeeds never invokes the scratch-disk
\* removal, and the scratch disks it created are registered for the VM
\* when it returns; a transient disk is only ever removed by the removal
\* step of a stop_backup or of a failing start_backup.
C28_SuccessKeepsScratchDisks ==
    /\ []((Starting /\ Finished /\ exc = NoExc) =>
            /\ ~Invoked("list_transient_disks")
            /\ ~Invoked("remove_transient_disk")
            /\ transient
                 = transient0 \cup Args("create_transient_disk", "ok"))
    /\ [][DiskRemoved =>
            \/ Stopping /\ pc = "stop_remove"
            \/ /\ Starting /\ exc # NoExc
               /\ pc \in {"rollback_create", "rollback_try"}]_vars

\* C28, witness: a start_backup that created two scratch disks returns;
\* both are registered and no removal was invoked.
C28_Witness ==
    /\ Starting /\ Finished /\ exc = NoExc
    /\ Cardinality(Args("create_transient_disk", "ok")) = 2
    /\ Args("create_transient_disk", "ok") \subseteq transient
    /\ ~Invoked("list_transient_disks")

---------------------------------------------------------------------------
(* C29 *)

\* C29: when start_backup fails after freeze was invoked, the scratch-disk
\* rollback is performed before thaw: the transient disks are listed and
\* removed between the freeze and the thaw, and thaw is the last
\* collaborator call before the error leaves start_backup.
C29_RollbackBeforeThaw ==
    (Starting /\ Finished /\ exc # NoExc /\ Invoked("freeze")) =>
        /\ Count("thaw", calls) = 1
        /\ calls[Len(calls)].call = "thaw"
        /\ Invoked("list_transient_disks")
        /\ Precedes("freeze", "list_transient_disks")
        /\ Precedes("list_transient_disks", "thaw")
        /\ Precedes("remove_transient_disk", "thaw")
        /\ Precedes("freeze", "remove_transient_disk")

\* C29, witness: a strict freeze fails; the scratch disk is removed and
\* then the guest is thawed.
C29_Witness ==
    /\ Starting /\ Finished
    /\ first = "freeze"
    /\ Len(calls) > 2
    /\ calls[Len(calls)].call = "thaw"
    /\ calls[Len(calls) - 1].call = "remove_transient_disk"
    /\ calls[Len(calls) - 1].res = "ok"

---------------------------------------------------------------------------
(* C30 *)

\* start_backup has begun a backup that creates a checkpoint.
BegunWithCheckpoint ==
    /\ Starting
    /\ cfg.to_checkpoint_id # None
    /\ Invoked("backupBegin")
    /\ Res("backupBegin", calls) = VIR_OK

\* The checkpoints _get_leaf_checkpoint_name was given.
ListedNames ==
    calls[CHOOSE i \in Pos("listAllCheckpoints", calls) : TRUE].names

\* Another thread changed the domain's checkpoints between the listing of
\* _validate_parent_id and begin-backup.
ChangedSinceListing ==
    \E i \in Pos("listAllCheckpoints", calls), j \in OtherSteps,
       k \in Pos("backupBegin", calls) : i < j /\ j < k

\* begin-backup is the latest call; the checkpoints it found are those of
\* the domain less the one it created.
JustBegun == calls[Len(calls)].call = "backupBegin"

LeafAtBegin == LeafOf(SubSeq(chain, 1, Len(chain) - 1))

\* C30, as stated: without the per-VM serialization, with the steps of
\* delete_checkpoints and redefine_checkpoints of other threads
\* interleaved, a start_backup that succeeds with to_checkpoint_id set had
\* parent_checkpoint_id equal to the leaf of the domain's checkpoints at
\* the moment begin-backup was invoked.
C30_LeafValidWithoutLock ==
    (BegunWithCheckpoint /\ JustBegun) =>
        cfg.parent_checkpoint_id = LeafAtBegin

\* C30, amended: a start_backup that begins a backup with to_checkpoint_id
\* set had parent_checkpoint_id equal to the leaf of the checkpoints it
\* listed in _validate_parent_id; it is equal to the leaf at the moment
\* begin-backup is invoked when no other thread changed the domain's
\* checkpoints in between.
C30_LeafValidAtListing ==
    BegunWithCheckpoint =>
        /\ Invoked("listAllCheckpoints")
        /\ cfg.parent_checkpoint_id = LeafOf(ListedNames)
        /\ (JustBegun /\ ~ChangedSinceListing) =>
               cfg.parent_checkpoint_id = LeafAtBegin

\* C30, witness: another thread changed the checkpoints after the listing,
\* begin-backup succeeded, and the parent is the leaf that was listed but
\* not the leaf begin-backup found.
C30_Witness ==
    /\ BegunWithCheckpoint /\ JustBegun
    /\ ChangedSinceListing
    /\ cfg.parent_checkpoint_id = LeafOf(ListedNames)
    /\ cfg.parent_checkpoint_id # LeafAtBegin

=============================================================================
